---- MODULE Spec2Model ----
(***************************************************************************)
(* Payflow authentication backend (Node/MySQL version): signup, two-step   *)
(* login (password, then one-time passcode) and GET /me.                   *)
(*                                                                         *)
(* Every request is a process that runs its controller one store           *)
(* operation at a time; the store operations of concurrent requests        *)
(* interleave freely.  What a controller does between two store            *)
(* operations (field checks, bcrypt, OTP and token generation, building    *)
(* the response) touches no shared state and belongs to the step of the    *)
(* store operation next to it.  Time is counted in minutes.                *)
(***************************************************************************)
EXTENDS Integers, Sequences, FiniteSets, TLC

VARIABLES
    users,        \* rows of table users
    otps,         \* rows of table otps
    nextUserId,   \* AUTO_INCREMENT of users.id
    nextOtpId,    \* AUTO_INCREMENT of otps.id
    now,          \* wall clock / NOW(), in minutes
    req,          \* the request in flight in every slot
    answer,       \* the request answered last, with its response
    budget,       \* number of requests the clients will still send
    otpLog        \* history: per otps.id, who issued it and who consumed it

vars == <<users, otps, nextUserId, nextOtpId, now, req, answer, budget, otpLog>>

----------------------------------------------------------------------------
(* Bounds of the model *)

NumSlots == 2          \* requests in flight at the same time
MaxRequests == 4       \* requests received in one behaviour
MaxTicks == 1          \* the clock advances this many times
TickMinutes == 10      \* by this many minutes each time

Slots == 1..NumSlots

----------------------------------------------------------------------------
(* Program constants *)

OTP_MINUTES == 10      \* getOTPExpiration(10)
OTP_BASE == 100000     \* Math.floor(100000 + Math.random() * 900000)
OTP_SPAN == 900000
OTP_DIGITS == 6        \* padStart(6, '0')
JWT_EXPIRE == 10080    \* "7d", in minutes
BCRYPT_LEN == 60       \* length of a bcrypt hash string
NAME_MIN == 2
NAME_MAX == 100
EMAIL_MAX == 254
PASSWORD_MIN == 8
PASSWORD_MAX == 64

----------------------------------------------------------------------------
(* Strings are sequences of one-character strings, so that toLowerCase and *)
(* trim are computed and not assumed.                                      *)

Upper == {"A", "B"}
LowerOf(c) == IF c = "A" THEN "a" ELSE IF c = "B" THEN "b" ELSE c

ToLowerCase(s) == [i \in 1..Len(s) |-> LowerOf(s[i])]

IsSpace(c) == c = " "

RECURSIVE TrimStart(_)
TrimStart(s) ==
    IF s # <<>> /\ IsSpace(Head(s)) THEN TrimStart(Tail(s)) ELSE s

RECURSIVE TrimEnd(_)
TrimEnd(s) ==
    IF s # <<>> /\ IsSpace(s[Len(s)]) THEN TrimEnd(SubSeq(s, 1, Len(s) - 1)) ELSE s

Trim(s) == TrimEnd(TrimStart(s))

\* email.toLowerCase().trim() of the models
NormalizeEmail(email) == Trim(ToLowerCase(email))

----------------------------------------------------------------------------
(* Password hasher (bcryptjs).  A hash is the plain text it was made from  *)
(* and the salted body bcrypt drew for it; the stored string is            *)
(* "$2a$12$" followed by the body, BCRYPT_LEN characters in all (the model *)
(* abbreviates the 53 characters of the body to three).                    *)

HashBodies == {<<"K", "q", "7">>, <<"K", ".", "7">>}

NoHash == [plain |-> "", body |-> <<>>]

hashPassword(password, body) == [plain |-> password, body |-> body]

comparePassword_truthy(password, hashedPassword) == hashedPassword # NoHash

comparePassword(password, hashedPassword) ==
    hashedPassword # NoHash /\ hashedPassword.plain = password

HashString(h) == <<"$", "2", "a", "$", "1", "2", "$">> \o h.body

RegexLower == {"a", "b", "k", "q", "x"}
RegexUpper == {"A", "B", "K"}
RegexDigit == {"1", "2", "7"}
RegexSpecial == {"@", "$", "!", "%", "*", "?", "&"}

\* /^(?=.*[a-z])(?=.*[A-Z])(?=.*\d)(?=.*[@$!%*?&])[A-Za-z\d@$!%*?&]{8,64}$/
\* applied to the string createUser receives as Password, which is the hash
PASSWORD_REGEX(h) ==
    LET s == HashString(h) IN
    /\ \E i \in 1..Len(s) : s[i] \in RegexLower
    /\ \E i \in 1..Len(s) : s[i] \in RegexUpper
    /\ \E i \in 1..Len(s) : s[i] \in RegexDigit
    /\ \E i \in 1..Len(s) : s[i] \in RegexSpecial
    /\ \A i \in 1..Len(s) :
          s[i] \in RegexLower \cup RegexUpper \cup RegexDigit \cup RegexSpecial
    /\ BCRYPT_LEN >= PASSWORD_MIN /\ BCRYPT_LEN <= PASSWORD_MAX

----------------------------------------------------------------------------
(* Token issuer (jsonwebtoken) *)

\* a token is its payload and whether its signature is one of env.JWT_SECRET
NoToken == [userId |-> 0, exp |-> 0, signed |-> FALSE]

generateToken(userId, t) == [userId |-> userId, exp |-> t + JWT_EXPIRE, signed |-> TRUE]

----------------------------------------------------------------------------
(* OTP utilities *)

RandDenom == 2                      \* Math.random() is sampled as k / RandDenom
RandomSamples == 0..(RandDenom - 1)

FineDenom == 2000                   \* the finer sampling k / FineDenom of [0, 1)
FineSamples == 0..(FineDenom - 1)

generateOTPNumberOf_noBase(k, denom) == (k * (OTP_BASE + OTP_SPAN)) \div denom

\* Math.floor(100000 + Math.random() * 900000) for Math.random() = k / denom
generateOTPNumberOf(k, denom) == OTP_BASE + ((k * OTP_SPAN) \div denom)

\* Math.floor(100000 + Math.random() * 900000), as a number
generateOTPNumber(k) == generateOTPNumberOf(k, RandDenom)

RECURSIVE Digits(_)
Digits(n) ==
    IF n < 10 THEN <<n>> ELSE Digits(n \div 10) \o <<n % 10>>

PadStart(s, width, fill) ==
    IF Len(s) >= width THEN s
    ELSE [i \in 1..(width - Len(s)) |-> fill] \o s

\* otp.toString().padStart(6, '0'): the code is its sequence of digits
generateOTP(k) == PadStart(Digits(generateOTPNumber(k)), OTP_DIGITS, 0)

\* the code drawn for Math.random() = k / denom
generateOTPOf(k, denom) == PadStart(Digits(generateOTPNumberOf(k, denom)), OTP_DIGITS, 0)

getOTPExpiration(minutes, t) == t + minutes

NoCode == <<>>
Codes == {generateOTP(k) : k \in RandomSamples}

----------------------------------------------------------------------------
(* Credential store: models/user.js over table users *)

NoUser == [id |-> 0, FullName |-> <<>>, Email |-> <<>>, Password |-> NoHash, createdAt |-> 0]

PublicColumns_all(u) == u

\* SELECT id, FullName, Email, ... : the row without its Password column
PublicColumns(u) == [u EXCEPT !.Password = NoHash]

findUserByEmail(table, email, includePassword) ==
    LET normalizedEmail == NormalizeEmail(email)
        rows == {u \in table : u.Email = normalizedEmail}
    IN  IF rows = {} THEN NoUser
        ELSE LET u == CHOOSE u \in rows : TRUE
             IN  IF includePassword THEN u ELSE PublicColumns(u)

findUserById(table, userId, includePassword) ==
    LET rows == {u \in table : u.id = userId}
    IN  IF rows = {} THEN NoUser
        ELSE LET u == CHOOSE u \in rows : TRUE
             IN  IF includePassword THEN u ELSE PublicColumns(u)

\* validator.isEmail, on the short addresses of the model: local@domain
IsEmail(s) ==
    /\ Cardinality({i \in 1..Len(s) : s[i] = "@"}) = 1
    /\ s[1] # "@" /\ s[Len(s)] # "@"
    /\ \A i \in 1..Len(s) : ~IsSpace(s[i])

NameChars == {"a", "b", "A", "B", " ", "'", "-"}

\* error messages are sequences of words, so that error.message.includes(...)
\* is computed
NoError == <<>>

Includes(message, words) ==
    \E i \in 1..(Len(message) - Len(words) + 1) :
        \A j \in 1..Len(words) : message[i + j - 1] = words[j]

\* the validation createUser runs before its INSERT: the message of the Error
\* it throws, or NoError
createUserValidation(FullName, Email, Password) ==
    IF FullName = <<>> THEN <<"Full", "Name", "is", "required">>
    ELSE IF Len(Trim(FullName)) < NAME_MIN \/ Len(Trim(FullName)) > NAME_MAX
         THEN <<"Full", "Name", "must", "be", "between", "2", "and", "100", "characters">>
    ELSE IF \E i \in 1..Len(Trim(FullName)) : Trim(FullName)[i] \notin NameChars
         THEN <<"Full", "Name", "can", "only", "contain", "letters,", "spaces,",
                "hyphens,", "and", "apostrophes">>
    ELSE IF Email = <<>> THEN <<"Email", "is", "required">>
    ELSE IF Len(NormalizeEmail(Email)) > EMAIL_MAX THEN <<"Email", "is", "too", "long">>
    ELSE IF ~IsEmail(NormalizeEmail(Email))
         THEN <<"Please", "enter", "a", "valid", "email">>
    ELSE IF Password = NoHash THEN <<"Password", "is", "required">>
    ELSE IF BCRYPT_LEN < PASSWORD_MIN \/ BCRYPT_LEN > PASSWORD_MAX
         THEN <<"Password", "must", "be", "between", "8", "and", "64", "characters">>
    ELSE IF ~PASSWORD_REGEX(Password)
         THEN <<"Password", "must", "include", "uppercase,", "lowercase,", "number",
                "and", "special", "character">>
    ELSE NoError

\* the test of signup's catch block that makes a thrown Error a 400
IsValidationMessage(message) ==
    \/ Includes(message, <<"required">>)
    \/ Includes(message, <<"must", "be">>)
    \/ Includes(message, <<"can", "only", "contain">>)
    \/ Includes(message, <<"Invalid">>)
    \/ Includes(message, <<"too", "long">>)

ER_DUP_ENTRY_none(table, normalizedEmail) == FALSE

\* Email VARCHAR(254) NOT NULL UNIQUE
ER_DUP_ENTRY(table, normalizedEmail) == \E u \in table : u.Email = normalizedEmail

\* INSERT INTO users (FullName, Email, Password) VALUES (?, ?, ?)
InsertUser(table, id, FullName, Email, Password, t) ==
    table \cup {[id |-> id, FullName |-> Trim(FullName), Email |-> NormalizeEmail(Email),
                 Password |-> Password, createdAt |-> t]}

----------------------------------------------------------------------------
(* OTP store: models/otp.js over table otps *)

NoOtp == [id |-> 0, Email |-> <<>>, OTP |-> NoCode, expiresAt |-> 0, used |-> FALSE, createdAt |-> 0]

ValidRows_anyEmail(table, email, otpCode, t) ==
    {o \in table : o.OTP = otpCode /\ ~o.used /\ o.expiresAt > t}

ValidRows_notStrict(table, email, otpCode, t) ==
    {o \in table : /\ o.Email = NormalizeEmail(email)
                   /\ o.OTP = otpCode
                   /\ ~o.used
                   /\ o.expiresAt >= t}

ValidRows_rawEmail(table, email, otpCode, t) ==
    {o \in table : /\ o.Email = email
                   /\ o.OTP = otpCode
                   /\ ~o.used
                   /\ o.expiresAt > t}

\* WHERE Email = ? AND OTP = ? AND used = 0 AND expiresAt > NOW()
ValidRows(table, email, otpCode, t) ==
    {o \in table : /\ o.Email = NormalizeEmail(email)
                   /\ o.OTP = otpCode
                   /\ ~o.used
                   /\ o.expiresAt > t}

\* ORDER BY createdAt DESC LIMIT 1: the rows the query may return.  Rows of
\* the same createdAt are returned in an order MySQL does not define.
findValidOTP(table, email, otpCode, t) ==
    LET rows == ValidRows(table, email, otpCode, t)
    IN  {o \in rows : \A p \in rows : p.createdAt <= o.createdAt}

createOTP_used(table, id, Email, OTP, expiresAt, t) ==
    table \cup {[id |-> id, Email |-> NormalizeEmail(Email), OTP |-> OTP,
                 expiresAt |-> expiresAt, used |-> TRUE, createdAt |-> t]}

\* INSERT INTO otps (Email, OTP, expiresAt, used) VALUES (?, ?, ?, 0)
createOTP(table, id, Email, OTP, expiresAt, t) ==
    table \cup {[id |-> id, Email |-> NormalizeEmail(Email), OTP |-> OTP,
                 expiresAt |-> expiresAt, used |-> FALSE, createdAt |-> t]}

markOTPAsUsed_noop(table, otpId) == table

markOTPAsUsed_toggle(table, otpId) ==
    {IF o.id = otpId THEN [o EXCEPT !.used = ~o.used] ELSE o : o \in table}

\* UPDATE otps SET used = 1 WHERE id = ?
markOTPAsUsed(table, otpId) ==
    {IF o.id = otpId THEN [o EXCEPT !.used = TRUE] ELSE o : o \in table}

invalidateUnusedOTPs_raw(table, email) ==
    {IF o.Email = email /\ ~o.used THEN [o EXCEPT !.used = TRUE] ELSE o : o \in table}

\* UPDATE otps SET used = 1 WHERE Email = ? AND used = 0
invalidateUnusedOTPs(table, email) ==
    {IF o.Email = NormalizeEmail(email) /\ ~o.used THEN [o EXCEPT !.used = TRUE] ELSE o :
        o \in table}

cleanupExpiredOTPs_byCreatedAt(table, t) == {o \in table : ~(o.createdAt < t)}

\* DELETE FROM otps WHERE expiresAt < NOW(): the rows that stay
cleanupExpiredOTPs(table, t) == {o \in table : ~(o.expiresAt < t)}

----------------------------------------------------------------------------
(* Requests *)

\* what clients send
EmailInputs == {<<"A", "@", "x">>, <<"c", "@", "x">>}
PasswordInputs == {"Abcd12!@", "Wxyz34#$"}
NameInputs == {<<"a", "b">>}

IdleReq ==
    [kind |-> "none", pc |-> "idle",
     FullName |-> <<>>, Email |-> <<>>, Password |-> "", ConfirmPassword |-> "",
     OTP |-> NoCode, bearer |-> NoToken,
     user |-> NoUser, hashedPassword |-> NoHash, otpCode |-> NoCode, expiresAt |-> 0,
     otpRecord |-> NoOtp, insertId |-> 0,
     status |-> 0, message |-> "", resError |-> NoError, resOtp |-> NoCode,
     resToken |-> NoToken, resUser |-> NoUser,
     \* history: AUTO_INCREMENT of otps at the start of the request and at its
     \* invalidation, and the OTP rows already consumed when the request started
     beginNext |-> 0, invNext |-> 0, spentIds |-> {},
     \* history: the OTP rows a failed verify-otp had marked used when the request
     \* started
     burntIds |-> {},
     \* history: the rows of users with the email of the request when it started
     found |-> {}]

Free(r) == req[r].pc = "idle"

\* a request is taken by the first free slot
CanReceive(r) ==
    /\ Free(r)
    /\ \A p \in Slots : p < r => ~Free(p)
    /\ budget > 0

Received(kind, Email, Password) ==
    [IdleReq EXCEPT !.kind = kind, !.Email = Email, !.Password = Password,
                    !.beginNext = nextOtpId,
                    !.found = {u.id : u \in {v \in users : v.Email = Trim(ToLowerCase(Email))}},
                    !.spentIds = {i \in DOMAIN otpLog : otpLog[i].consumed > 0},
                    !.burntIds = {i \in DOMAIN otpLog : otpLog[i].burnt > 0}]

\* the response res.status(status).json({message, ...}) to request q
Response(q, status, message) ==
    [IdleReq EXCEPT !.kind = q.kind, !.pc = "done",
                    !.Email = q.Email, !.Password = q.Password, !.OTP = q.OTP,
                    !.FullName = q.FullName, !.ConfirmPassword = q.ConfirmPassword,
                    !.bearer = q.bearer,
                    !.beginNext = q.beginNext, !.spentIds = q.spentIds, !.found = q.found,
                    !.burntIds = q.burntIds,
                    !.status = status, !.message = message]

\* history of an OTP row: the email, password and code of the login that issued
\* it, AUTO_INCREMENT of otps when that login started and when it invalidated,
\* the number of verify-otp requests answered 200 on this row, and AUTO_INCREMENT
\* of otps when the first of them started, and the number of verify-otp
\* requests that marked the row used and failed afterwards
NoLog == [Email |-> <<>>, Password |-> "", OTP |-> NoCode, beginNext |-> 0, invNext |-> 0,
          consumed |-> 0, vBeginNext |-> 0, burnt |-> 0,
          \* the row as the sweep deleted it, or NoOtp
          swept |-> NoOtp,
          \* the email as the login that issued the row spelled it
          spelling |-> <<>>]

\* answering ends the request of slot r
Answer(r, response) ==
    /\ answer' = response
    /\ req' = [req EXCEPT ![r] = IdleReq]

Continue(r, q) ==
    /\ req' = [req EXCEPT ![r] = q]
    /\ UNCHANGED answer

----------------------------------------------------------------------------
(* POST /login: login of controllers/authController.js *)

\* field check, findUserByEmail(Email, true), comparePassword, generateOTP(),
\* getOTPExpiration(10)
LoginWith(r, Email, Password, codes) ==
    /\ CanReceive(r)
    /\ budget' = budget - 1
    /\ LET q == Received("login", Email, Password)
           user == findUserByEmail(users, Email, TRUE)
       IN  IF Email = <<>> \/ Password = ""
           THEN Answer(r, Response(q, 400, "Please provide Email and Password"))
           ELSE IF user = NoUser
           THEN Answer(r, Response(q, 401, "Invalid credentials. Email or password is incorrect."))
           ELSE IF ~comparePassword(Password, user.Password)
           THEN Answer(r, Response(q, 401, "Invalid credentials. Email or password is incorrect."))
           ELSE \E otpCode \in codes :
                   Continue(r, [q EXCEPT !.pc = "invalidate", !.user = user,
                                         !.otpCode = otpCode,
                                         !.expiresAt = getOTPExpiration(OTP_MINUTES, now)])
    /\ UNCHANGED <<users, otps, nextUserId, nextOtpId, now, otpLog>>

LoginCredentials(r, Email, Password) == LoginWith(r, Email, Password, Codes)

\* await invalidateUnusedOTPs(Email)
LoginInvalidate(r) ==
    /\ req[r].kind = "login" /\ req[r].pc = "invalidate"
    /\ otps' = invalidateUnusedOTPs(otps, req[r].Email)
    /\ Continue(r, [req[r] EXCEPT !.pc = "create", !.invNext = nextOtpId])
    /\ UNCHANGED <<users, nextUserId, nextOtpId, now, budget, otpLog>>

\* await createOTP({Email: Email.toLowerCase(), OTP: otpCode, expiresAt}), whose
\* findOTPById result is not used, then res.status(200)
LoginCreate(r) ==
    /\ req[r].kind = "login" /\ req[r].pc = "create"
    /\ otps' = createOTP(otps, nextOtpId, ToLowerCase(req[r].Email), req[r].otpCode,
                         req[r].expiresAt, now)
    /\ nextOtpId' = nextOtpId + 1
    /\ otpLog' = [otpLog EXCEPT ![nextOtpId] =
                     [NoLog EXCEPT !.Email = NormalizeEmail(req[r].Email),
                                   !.spelling = req[r].Email,
                                   !.Password = req[r].Password,
                                   !.OTP = req[r].otpCode,
                                   !.beginNext = req[r].beginNext,
                                   !.invNext = req[r].invNext]]
    /\ Answer(r, [Response(req[r], 200, "Credentials verified. OTP generated.")
                      EXCEPT !.resOtp = req[r].otpCode, !.otpRecord.id = nextOtpId])
    /\ UNCHANGED <<users, nextUserId, now, budget>>

----------------------------------------------------------------------------
(* POST /verify-otp: verifyOTP of controllers/authController.js *)

\* field check, findUserByEmail(Email, true), comparePassword
VerifyCredentials(r, Email, Password, otpCode) ==
    /\ CanReceive(r)
    /\ budget' = budget - 1
    /\ LET q == [Received("verifyOTP", Email, Password) EXCEPT !.OTP = otpCode]
           user == findUserByEmail(users, Email, TRUE)
       IN  IF Email = <<>> \/ Password = "" \/ otpCode = NoCode
           THEN Answer(r, Response(q, 400, "Please provide Email, Password, and OTP"))
           ELSE IF user = NoUser
           THEN Answer(r, Response(q, 401, "Invalid credentials."))
           ELSE IF ~comparePassword(Password, user.Password)
           THEN Answer(r, Response(q, 401, "Invalid credentials."))
           ELSE Continue(r, [q EXCEPT !.pc = "findValid", !.user = user])
    /\ UNCHANGED <<users, otps, nextUserId, nextOtpId, now, otpLog>>

VerifyFindValid_invalidating(r) ==
    /\ req[r].kind = "verifyOTP" /\ req[r].pc = "findValid"
    /\ LET rows == findValidOTP(otps, req[r].Email, req[r].OTP, now)
       IN  IF rows = {}
           THEN /\ Answer(r, Response(req[r], 401, "Invalid or expired OTP. Please request a new OTP."))
                /\ otps' = invalidateUnusedOTPs(otps, req[r].Email)
           ELSE /\ \E otpRecord \in rows :
                      Continue(r, [req[r] EXCEPT !.pc = "markUsed", !.otpRecord = otpRecord])
                /\ UNCHANGED otps
    /\ UNCHANGED <<users, nextUserId, nextOtpId, now, budget, otpLog>>

\* await findValidOTP(Email, otpCode)
VerifyFindValid(r) ==
    /\ req[r].kind = "verifyOTP" /\ req[r].pc = "findValid"
    /\ LET rows == findValidOTP(otps, req[r].Email, req[r].OTP, now)
       IN  IF rows = {}
           THEN Answer(r, Response(req[r], 401, "Invalid or expired OTP. Please request a new OTP."))
           ELSE \E otpRecord \in rows :
                   Continue(r, [req[r] EXCEPT !.pc = "markUsed", !.otpRecord = otpRecord])
    /\ UNCHANGED <<users, otps, nextUserId, nextOtpId, now, budget, otpLog>>

\* await markOTPAsUsed(otpRecord.id), then generateToken(user.id) and res.status(200)
VerifyMarkUsed(r) ==
    /\ req[r].kind = "verifyOTP" /\ req[r].pc = "markUsed"
    /\ otps' = markOTPAsUsed(otps, req[r].otpRecord.id)
    /\ LET token == generateToken(req[r].user.id, now)
           id == req[r].otpRecord.id
       IN  /\ Answer(r, [Response(req[r], 200, "OTP verified successfully. Login complete.")
                             EXCEPT !.resUser = PublicColumns(req[r].user),
                                    !.resToken = token,
                                    !.otpRecord = req[r].otpRecord])
           /\ otpLog' = [otpLog EXCEPT
                  ![id].consumed = @ + 1,
                  ![id].vBeginNext = IF otpLog[id].consumed = 0 THEN req[r].beginNext ELSE @]
    /\ UNCHANGED <<users, nextUserId, nextOtpId, now, budget>>

----------------------------------------------------------------------------
(* POST /signup: signup of controllers/authController.js *)

\* field checks, findUserByEmail(Email), hashPassword(Password)
SignupFind(r, FullName, Email, Password, ConfirmPassword) ==
    /\ CanReceive(r)
    /\ budget' = budget - 1
    /\ LET q == [Received("signup", Email, Password)
                    EXCEPT !.FullName = FullName, !.ConfirmPassword = ConfirmPassword]
       IN  IF FullName = <<>> \/ Email = <<>> \/ Password = "" \/ ConfirmPassword = ""
           THEN Answer(r, Response(q, 400,
                   "Please provide Full Name, Email, Password, and Confirm Password"))
           ELSE IF Password # ConfirmPassword
           THEN Answer(r, Response(q, 400, "Password and Confirm Password do not match"))
           ELSE IF findUserByEmail(users, Email, FALSE) # NoUser
           THEN Answer(r, Response(q, 409,
                   "Email already registered. Please use another email or login."))
           ELSE \E body \in HashBodies :
                   Continue(r, [q EXCEPT !.pc = "insert",
                                         !.hashedPassword = hashPassword(Password, body)])
    /\ UNCHANGED <<users, otps, nextUserId, nextOtpId, now, otpLog>>

\* createUser({FullName.trim(), Email.toLowerCase(), hashedPassword}) up to its
\* INSERT, and what the catch block answers when it throws
SignupInsert(r) ==
    /\ req[r].kind = "signup" /\ req[r].pc = "insert"
    /\ LET FullName == Trim(req[r].FullName)
           Email == ToLowerCase(req[r].Email)
           thrown == createUserValidation(FullName, Email, req[r].hashedPassword)
       IN  IF thrown # NoError
           THEN /\ IF IsValidationMessage(thrown)
                   THEN Answer(r, [Response(req[r], 400, "Validation error")
                                      EXCEPT !.resError = thrown])
                   ELSE Answer(r, [Response(req[r], 500, "Error creating user account")
                                      EXCEPT !.resError = thrown])
                /\ UNCHANGED <<users, nextUserId>>
           ELSE IF ER_DUP_ENTRY(users, NormalizeEmail(Email))
           THEN /\ Answer(r, Response(req[r], 409,
                       "Email already registered. Please use another email or login."))
                /\ UNCHANGED <<users, nextUserId>>
           ELSE /\ users' = InsertUser(users, nextUserId, FullName, Email,
                                       req[r].hashedPassword, now)
                /\ nextUserId' = nextUserId + 1
                /\ Continue(r, [req[r] EXCEPT !.pc = "fetch", !.insertId = nextUserId])
    /\ UNCHANGED <<otps, nextOtpId, now, budget, otpLog>>

\* the findUserById(result.insertId) of createUser, generateToken(user.id),
\* res.status(201)
SignupRespond(r) ==
    /\ req[r].kind = "signup" /\ req[r].pc = "fetch"
    /\ LET user == findUserById(users, req[r].insertId, FALSE)
       IN  IF user = NoUser
           THEN Answer(r, [Response(req[r], 500, "Error creating user account")
                              EXCEPT !.resError = <<"Cannot", "read", "properties", "of", "null">>])
           ELSE Answer(r, [Response(req[r], 201, "User registered successfully")
                              EXCEPT !.resUser = user,
                                     !.resToken = generateToken(user.id, now),
                                     !.insertId = req[r].insertId])
    /\ UNCHANGED <<users, otps, nextUserId, nextOtpId, now, budget, otpLog>>

----------------------------------------------------------------------------
(* GET /me: authenticate of middleware/auth.js, then getCurrentUser *)

jwtVerify_noExpiry(token, t) ==
    IF ~token.signed THEN "JsonWebTokenError" ELSE "ok"

\* jwt.verify: the token carries a signature of this server and has not expired
jwtVerify(token, t) ==
    IF ~token.signed THEN "JsonWebTokenError"
    ELSE IF token.exp <= t THEN "TokenExpiredError"
    ELSE "ok"

Me(r, bearer) ==
    /\ CanReceive(r)
    /\ budget' = budget - 1
    /\ LET q == [Received("me", <<>>, "") EXCEPT !.bearer = bearer]
           user == findUserById(users, bearer.userId, FALSE)
       IN  IF bearer = NoToken
           THEN Answer(r, Response(q, 401, "Access denied. No token provided."))
           ELSE IF jwtVerify(bearer, now) = "JsonWebTokenError"
           THEN Answer(r, Response(q, 401, "Invalid token."))
           ELSE IF jwtVerify(bearer, now) = "TokenExpiredError"
           THEN Answer(r, Response(q, 401, "Token expired. Please login again."))
           ELSE IF user = NoUser
           THEN Answer(r, Response(q, 401, "Invalid token. User not found."))
           ELSE Answer(r, [Response(q, 200, "") EXCEPT !.resUser = user])
    /\ UNCHANGED <<users, otps, nextUserId, nextOtpId, now, otpLog>>

----------------------------------------------------------------------------
(* POST /signup of the Java backend: AuthController.signup over            *)
(* AuthService.signup, a @Transactional method over the same table users.  *)

\* @Valid on SignupRequest: presence of the four fields, size and pattern of
\* the name, @Email and size of the email (the passwords clients send in the
\* model all satisfy the password pattern)
SignupRequestValid(FullName, Email, Password, ConfirmPassword) ==
    /\ Trim(FullName) # <<>> /\ Trim(Email) # <<>> /\ Password # "" /\ ConfirmPassword # ""
    /\ Len(FullName) >= NAME_MIN /\ Len(FullName) <= NAME_MAX
    /\ \A i \in 1..Len(FullName) : FullName[i] \in NameChars
    /\ IsEmail(Email) /\ Len(Email) <= EMAIL_MAX

\* GlobalExceptionHandler.handleRuntimeException: the status it gives to a
\* RuntimeException that reaches it
handleRuntimeException(message) ==
    IF \/ Includes(message, <<"Invalid", "credentials">>)
       \/ Includes(message, <<"Invalid", "or", "expired", "OTP">>)
       \/ Includes(message, <<"Access", "denied">>)
    THEN 401
    ELSE IF \/ Includes(message, <<"already", "registered.">>)
            \/ Includes(message, <<"already", "exists">>)
    THEN 409
    ELSE 400

AlreadyRegistered ==
    <<"Email", "already", "registered.", "Please", "use", "another", "email", "or", "login.">>

\* the catch (RuntimeException e) of AuthController.signup, which answers
\* before the exception can reach the GlobalExceptionHandler
SignupCatch(q, message) ==
    [Response(q, 400, "e.getMessage()") EXCEPT !.resError = message]

\* @Valid, the comparison of the passwords, existsByEmail(email.toLowerCase())
JavaSignupExists(r, FullName, Email, Password, ConfirmPassword) ==
    /\ CanReceive(r)
    /\ budget' = budget - 1
    /\ LET q == [Received("javaSignup", Email, Password)
                    EXCEPT !.FullName = FullName, !.ConfirmPassword = ConfirmPassword]
       IN  IF ~SignupRequestValid(FullName, Email, Password, ConfirmPassword)
           THEN Answer(r, Response(q, 400, "Validation error"))
           ELSE IF Password # ConfirmPassword
           THEN Answer(r, SignupCatch(q, <<"Password", "and", "Confirm", "Password",
                                           "do", "not", "match">>))
           ELSE IF \E u \in users : u.Email = ToLowerCase(Email)
           THEN Answer(r, SignupCatch(q, AlreadyRegistered))
           ELSE \E body \in HashBodies :
                   Continue(r, [q EXCEPT !.pc = "save",
                                         !.hashedPassword = hashPassword(Password, body)])
    /\ UNCHANGED <<users, otps, nextUserId, nextOtpId, now, otpLog>>

\* userRepository.save(user), jwtUtil.generateToken(user.getId()), 201; the
\* unique index on Email makes save throw DataIntegrityViolationException
JavaSignupSave(r) ==
    /\ req[r].kind = "javaSignup" /\ req[r].pc = "save"
    /\ LET FullName == Trim(req[r].FullName)
           Email == Trim(ToLowerCase(req[r].Email))
       IN  IF ER_DUP_ENTRY(users, Email)
           THEN /\ Answer(r, SignupCatch(req[r], <<"could", "not", "execute", "statement",
                                                   "Duplicate", "entry">>))
                /\ UNCHANGED <<users, nextUserId>>
           ELSE /\ users' = InsertUser(users, nextUserId, FullName, Email,
                                       req[r].hashedPassword, now)
                /\ nextUserId' = nextUserId + 1
                /\ Answer(r, [Response(req[r], 201, "User registered successfully")
                                 EXCEPT !.resUser = [NoUser EXCEPT !.id = nextUserId,
                                                                   !.FullName = FullName,
                                                                   !.Email = Email,
                                                                   !.createdAt = now],
                                        !.resToken = generateToken(nextUserId, now),
                                        !.insertId = nextUserId])
    /\ UNCHANGED <<otps, nextOtpId, now, budget, otpLog>>

----------------------------------------------------------------------------
(* Operations that throw.  pool.execute rejects when the store fails and   *)
(* jwt.sign throws when it cannot sign; the catch block of the controller  *)
(* then answers 500 with error.message in the body.                        *)

StoreErrors == {<<"connect", "ECONNREFUSED">>}
TokenErrors == {<<"secretOrPrivateKey", "must", "have", "a", "value">>}

\* res.status(500).json({success: false, message, error: error.message})
Caught(q, message, error) ==
    [Response(q, 500, message) EXCEPT !.resError = error]

\* findUserByEmail(Email, true) rejects
LoginCredentialsFail(r, Email, Password, error) ==
    /\ CanReceive(r)
    /\ Email # <<>> /\ Password # ""
    /\ budget' = budget - 1
    /\ Answer(r, Caught(Received("login", Email, Password), "Error during login", error))
    /\ UNCHANGED <<users, otps, nextUserId, nextOtpId, now, otpLog>>

\* invalidateUnusedOTPs(Email) rejects
LoginInvalidateFail(r, error) ==
    /\ req[r].kind = "login" /\ req[r].pc = "invalidate"
    /\ Answer(r, Caught(req[r], "Error during login", error))
    /\ UNCHANGED <<users, otps, nextUserId, nextOtpId, now, budget, otpLog>>

\* createOTP(...) rejects: the invalidation before it is not undone
LoginCreateFail(r, error) ==
    /\ req[r].kind = "login" /\ req[r].pc = "create"
    /\ Answer(r, [Caught(req[r], "Error during login", error)
                      EXCEPT !.invNext = req[r].invNext])
    /\ UNCHANGED <<users, otps, nextUserId, nextOtpId, now, budget, otpLog>>

\* findUserByEmail(Email, true) rejects
VerifyCredentialsFail(r, Email, Password, otpCode, error) ==
    /\ CanReceive(r)
    /\ Email # <<>> /\ Password # "" /\ otpCode # NoCode
    /\ budget' = budget - 1
    /\ Answer(r, Caught([Received("verifyOTP", Email, Password) EXCEPT !.OTP = otpCode],
                        "Error verifying OTP", error))
    /\ UNCHANGED <<users, otps, nextUserId, nextOtpId, now, otpLog>>

\* findValidOTP(Email, otpCode) rejects
VerifyFindValidFail(r, error) ==
    /\ req[r].kind = "verifyOTP" /\ req[r].pc = "findValid"
    /\ Answer(r, Caught(req[r], "Error verifying OTP", error))
    /\ UNCHANGED <<users, otps, nextUserId, nextOtpId, now, budget, otpLog>>

\* markOTPAsUsed(otpRecord.id) rejects
VerifyMarkUsedFail(r, error) ==
    /\ req[r].kind = "verifyOTP" /\ req[r].pc = "markUsed"
    /\ Answer(r, Caught(req[r], "Error verifying OTP", error))
    /\ UNCHANGED <<users, otps, nextUserId, nextOtpId, now, budget, otpLog>>

\* await markOTPAsUsed(otpRecord.id) succeeds, then generateToken(user.id) throws
VerifyTokenFail(r, error) ==
    /\ req[r].kind = "verifyOTP" /\ req[r].pc = "markUsed"
    /\ otps' = markOTPAsUsed(otps, req[r].otpRecord.id)
    /\ otpLog' = [otpLog EXCEPT ![req[r].otpRecord.id].burnt = @ + 1]
    /\ Answer(r, [Caught(req[r], "Error verifying OTP", error)
                      EXCEPT !.otpRecord = req[r].otpRecord])
    /\ UNCHANGED <<users, nextUserId, nextOtpId, now, budget>>

----------------------------------------------------------------------------
(* The optional maintenance job: cleanupExpiredOTPs() *)

Sweep ==
    /\ otps' = cleanupExpiredOTPs(otps, now)
    /\ otpLog' = [i \in DOMAIN otpLog |->
                     IF \E o \in otps \ otps' : o.id = i
                     THEN [otpLog[i] EXCEPT !.swept = CHOOSE o \in otps \ otps' : o.id = i]
                     ELSE otpLog[i]]
    /\ UNCHANGED <<users, nextUserId, nextOtpId, now, req, answer, budget>>

----------------------------------------------------------------------------
(* The clock *)

Tick ==
    /\ now + TickMinutes <= MaxTicks * TickMinutes
    /\ now' = now + TickMinutes
    /\ UNCHANGED <<users, otps, nextUserId, nextOtpId, req, answer, budget, otpLog>>

----------------------------------------------------------------------------
(* The two-step login over a store that holds the account of Jane (a@x),   *)
(* created by an earlier signup; nobody has the address c@x.               *)

Jane ==
    [id |-> 1, FullName |-> <<"a", "b">>, Email |-> <<"a", "@", "x">>,
     Password |-> hashPassword("Abcd12!@", <<"K", "q", "7">>), createdAt |-> 0]

Bob ==
    [id |-> 2, FullName |-> <<"b", "a">>, Email |-> <<"b", "@", "x">>,
     Password |-> hashPassword("Wxyz34#$", <<"K", "q", "7">>), createdAt |-> 0]

InitAuth ==
    /\ users = {Jane}
    /\ nextUserId = 2
    /\ otps = {}
    /\ nextOtpId = 1
    /\ now = 0
    /\ req = [r \in Slots |-> IdleReq]
    /\ answer = IdleReq
    /\ budget = MaxRequests
    /\ otpLog = [i \in 1..MaxRequests |-> NoLog]

NextAuth ==
    \/ \E r \in Slots, Email \in EmailInputs, Password \in PasswordInputs :
          LoginCredentials(r, Email, Password)
    \/ \E r \in Slots : LoginInvalidate(r)
    \/ \E r \in Slots : LoginCreate(r)
    \/ \E r \in Slots, Email \in EmailInputs, Password \in PasswordInputs, otpCode \in Codes :
          VerifyCredentials(r, Email, Password, otpCode)
    \/ \E r \in Slots : VerifyFindValid(r)
    \/ \E r \in Slots : VerifyMarkUsed(r)
    \/ Tick

SpecAuth == InitAuth /\ [][NextAuth]_vars

----------------------------------------------------------------------------
(* The two-step login over a store that holds the accounts of Jane (a@x)   *)
(* and Bob (b@x), for one request less.                                    *)

EmailInputsTwo == {<<"A", "@", "x">>, <<"b", "@", "x">>}

InitTwo ==
    /\ users = {Jane, Bob}
    /\ nextUserId = 3
    /\ otps = {}
    /\ nextOtpId = 1
    /\ now = 0
    /\ req = [r \in Slots |-> IdleReq]
    /\ answer = IdleReq
    /\ budget = MaxRequests - 1
    /\ otpLog = [i \in 1..MaxRequests |-> NoLog]

NextTwo ==
    \/ \E r \in Slots, Email \in EmailInputsTwo, Password \in PasswordInputs :
          LoginCredentials(r, Email, Password)
    \/ \E r \in Slots : LoginInvalidate(r)
    \/ \E r \in Slots : LoginCreate(r)
    \/ \E r \in Slots, Email \in EmailInputsTwo, Password \in PasswordInputs, otpCode \in Codes :
          VerifyCredentials(r, Email, Password, otpCode)
    \/ \E r \in Slots : VerifyFindValid(r)
    \/ \E r \in Slots : VerifyMarkUsed(r)
    \/ Tick

SpecTwo == InitTwo /\ [][NextTwo]_vars

----------------------------------------------------------------------------
(* Signup and GET /me over a store that starts empty *)

SignupEmails == {<<"a", "@", "x">>, <<"A", "@", "x">>, <<"b", "@", "x">>}
SignupPasswords == {"Abcd12!@"}
SignupConfirms == {"Abcd12!@", "Wxyz34#$"}

InitSignup ==
    /\ users = {}
    /\ nextUserId = 1
    /\ otps = {}
    /\ nextOtpId = 1
    /\ now = 0
    /\ req = [r \in Slots |-> IdleReq]
    /\ answer = IdleReq
    /\ budget = MaxRequests
    /\ otpLog = [i \in 1..MaxRequests |-> NoLog]

NextSignup ==
    \/ \E r \in Slots, FullName \in NameInputs, Email \in SignupEmails,
          Password \in SignupPasswords, ConfirmPassword \in SignupConfirms :
          SignupFind(r, FullName, Email, Password, ConfirmPassword)
    \/ \E r \in Slots : SignupInsert(r)
    \/ \E r \in Slots : SignupRespond(r)
    \/ \E r \in Slots : Me(r, answer.resToken)
    \/ Tick

SpecSignup == InitSignup /\ [][NextSignup]_vars

----------------------------------------------------------------------------
(* Signup and GET /me over a store that starts empty, when clients also    *)
(* present tokens they did not get in this run: a forged one, and one that *)
(* this server signed JWT_EXPIRE - TickMinutes minutes ago for user 1.     *)

BearerInputs ==
    {NoToken,
     [userId |-> 1, exp |-> JWT_EXPIRE, signed |-> FALSE],
     [userId |-> 1, exp |-> TickMinutes, signed |-> TRUE]}

NextMe ==
    \/ \E r \in Slots, FullName \in NameInputs, Email \in SignupEmails,
          Password \in SignupPasswords :
          SignupFind(r, FullName, Email, Password, Password)
    \/ \E r \in Slots : SignupInsert(r)
    \/ \E r \in Slots : SignupRespond(r)
    \/ \E r \in Slots, bearer \in BearerInputs \cup {answer.resToken} : Me(r, bearer)
    \/ Tick

SpecMe == InitSignup /\ [][NextMe]_vars

----------------------------------------------------------------------------
(* Signup over a store that starts empty, when clients also send names and *)
(* emails that are not valid.                                              *)

ValidateNames == {<<"a", "b">>, <<"a">>, <<" ", " ">>, <<"a", "1">>}
ValidateEmails == {<<"a", "@", "x">>, <<"a", "x">>}

NextValidate ==
    \/ \E r \in Slots, FullName \in ValidateNames, Email \in ValidateEmails,
          Password \in SignupPasswords, ConfirmPassword \in SignupConfirms :
          SignupFind(r, FullName, Email, Password, ConfirmPassword)
    \/ \E r \in Slots : SignupInsert(r)
    \/ \E r \in Slots : SignupRespond(r)
    \/ Tick

SpecValidate == InitSignup /\ [][NextValidate]_vars

----------------------------------------------------------------------------
(* Signup at the Java backend over a store that starts empty *)

NextJava ==
    \/ \E r \in Slots, FullName \in NameInputs, Email \in SignupEmails,
          Password \in SignupPasswords, ConfirmPassword \in SignupConfirms :
          JavaSignupExists(r, FullName, Email, Password, ConfirmPassword)
    \/ \E r \in Slots : JavaSignupSave(r)
    \/ Tick

SpecJava == InitSignup /\ [][NextJava]_vars

----------------------------------------------------------------------------
(* The two-step login over the store of Jane, for one request less, when   *)
(* the store and the token issuer can fail.                                *)

InitFail ==
    /\ users = {Jane}
    /\ nextUserId = 2
    /\ otps = {}
    /\ nextOtpId = 1
    /\ now = 0
    /\ req = [r \in Slots |-> IdleReq]
    /\ answer = IdleReq
    /\ budget = MaxRequests - 1
    /\ otpLog = [i \in 1..MaxRequests |-> NoLog]

NextFail ==
    \/ \E r \in Slots, Email \in EmailInputs, Password \in PasswordInputs :
          LoginCredentials(r, Email, Password)
    \/ \E r \in Slots : LoginInvalidate(r)
    \/ \E r \in Slots : LoginCreate(r)
    \/ \E r \in Slots, Email \in EmailInputs, Password \in PasswordInputs, otpCode \in Codes :
          VerifyCredentials(r, Email, Password, otpCode)
    \/ \E r \in Slots : VerifyFindValid(r)
    \/ \E r \in Slots : VerifyMarkUsed(r)
    \/ \E r \in Slots, Email \in EmailInputs, Password \in PasswordInputs, error \in StoreErrors :
          LoginCredentialsFail(r, Email, Password, error)
    \/ \E r \in Slots, error \in StoreErrors : LoginInvalidateFail(r, error)
    \/ \E r \in Slots, error \in StoreErrors : LoginCreateFail(r, error)
    \/ \E r \in Slots, Email \in EmailInputs, Password \in PasswordInputs, otpCode \in Codes,
          error \in StoreErrors :
          VerifyCredentialsFail(r, Email, Password, otpCode, error)
    \/ \E r \in Slots, error \in StoreErrors : VerifyFindValidFail(r, error)
    \/ \E r \in Slots, error \in StoreErrors : VerifyMarkUsedFail(r, error)
    \/ \E r \in Slots, error \in TokenErrors : VerifyTokenFail(r, error)
    \/ Tick

SpecFail == InitFail /\ [][NextFail]_vars

----------------------------------------------------------------------------
(* The two-step login over the store of Jane, for one request less, with   *)
(* the maintenance job running at any time.  Jane logged in one minute     *)
(* before the start and has not verified the code she got.                 *)

OldOtp ==
    [id |-> 1, Email |-> <<"a", "@", "x">>, OTP |-> generateOTP(0),
     expiresAt |-> getOTPExpiration(OTP_MINUTES, 0 - 1), used |-> FALSE, createdAt |-> 0 - 1]

InitSweep ==
    /\ users = {Jane}
    /\ nextUserId = 2
    /\ otps = {OldOtp}
    /\ nextOtpId = 2
    /\ now = 0
    /\ req = [r \in Slots |-> IdleReq]
    /\ answer = IdleReq
    /\ budget = MaxRequests - 1
    /\ otpLog = [i \in 1..MaxRequests |->
                    IF i = 1 THEN [NoLog EXCEPT !.Email = OldOtp.Email, !.Password = "Abcd12!@",
                                                !.OTP = OldOtp.OTP, !.beginNext = 1, !.invNext = 1]
                    ELSE NoLog]

NextSweep ==
    \/ \E r \in Slots, Email \in EmailInputs, Password \in PasswordInputs :
          LoginCredentials(r, Email, Password)
    \/ \E r \in Slots : LoginInvalidate(r)
    \/ \E r \in Slots : LoginCreate(r)
    \/ \E r \in Slots, Email \in EmailInputs, Password \in PasswordInputs, otpCode \in Codes :
          VerifyCredentials(r, Email, Password, otpCode)
    \/ \E r \in Slots : VerifyFindValid(r)
    \/ \E r \in Slots : VerifyMarkUsed(r)
    \/ Sweep
    \/ Tick

SpecSweep == InitSweep /\ [][NextSweep]_vars

----------------------------------------------------------------------------
(* Signup and the two-step login over a store that starts empty, by one    *)
(* person who spells her email in two ways.                                *)

SpellingInputs == {<<"A", "@", "x">>, <<"a", "@", "x", " ">>}

NextSpelling ==
    \/ \E r \in Slots, FullName \in NameInputs, Email \in SpellingInputs,
          Password \in SignupPasswords :
          SignupFind(r, FullName, Email, Password, Password)
    \/ \E r \in Slots : SignupInsert(r)
    \/ \E r \in Slots : SignupRespond(r)
    \/ \E r \in Slots, Email \in SpellingInputs, Password \in SignupPasswords :
          LoginCredentials(r, Email, Password)
    \/ \E r \in Slots : LoginInvalidate(r)
    \/ \E r \in Slots : LoginCreate(r)
    \/ \E r \in Slots, Email \in SpellingInputs, Password \in SignupPasswords,
          otpCode \in Codes :
          VerifyCredentials(r, Email, Password, otpCode)
    \/ \E r \in Slots : VerifyFindValid(r)
    \/ \E r \in Slots : VerifyMarkUsed(r)
    \/ Tick

SpecSpelling == InitSignup /\ [][NextSpelling]_vars

\* login alone, the random source of generateOTP sampled finely
FineCodes == {generateOTPOf(k, FineDenom) : k \in FineSamples}

InitOtp ==
    /\ users = {Jane}
    /\ nextUserId = 2
    /\ otps = {}
    /\ nextOtpId = 1
    /\ now = 0
    /\ req = [r \in Slots |-> IdleReq]
    /\ answer = IdleReq
    /\ budget = 1
    /\ otpLog = [i \in 1..MaxRequests |-> NoLog]

NextOtp ==
    \/ \E r \in Slots, Email \in EmailInputs, Password \in PasswordInputs :
          LoginWith(r, Email, Password, FineCodes)
    \/ \E r \in Slots : LoginInvalidate(r)
    \/ \E r \in Slots : LoginCreate(r)
    \/ Tick

SpecOtp == InitOtp /\ [][NextOtp]_vars

\* signup, login and verify-otp with requests that are turned away, beside an
\* account with a code pending
PendingOtp ==
    CHOOSE o \in createOTP({}, 1, <<"a", "@", "x">>, generateOTP(0),
                           getOTPExpiration(OTP_MINUTES, 0), 0) : TRUE

RejectEmails == {<<>>, <<"A", "@", "x">>, <<"c", "@", "x">>}
RejectSignupEmails == {<<"A", "@", "x">>, <<"b", "@", "x">>}

InitReject ==
    /\ users = {Jane}
    /\ nextUserId = 2
    /\ otps = {PendingOtp}
    /\ nextOtpId = 2
    /\ now = 0
    /\ req = [r \in Slots |-> IdleReq]
    /\ answer = IdleReq
    /\ budget = MaxRequests - 1
    /\ otpLog = [i \in 1..MaxRequests |->
                    IF i = 1 THEN [NoLog EXCEPT !.Email = PendingOtp.Email, !.Password = "Abcd12!@",
                                                !.OTP = PendingOtp.OTP, !.beginNext = 1, !.invNext = 1]
                    ELSE NoLog]

NextReject ==
    \/ \E r \in Slots, Email \in RejectEmails, Password \in PasswordInputs :
          LoginCredentials(r, Email, Password)
    \/ \E r \in Slots : LoginInvalidate(r)
    \/ \E r \in Slots : LoginCreate(r)
    \/ \E r \in Slots, Email \in RejectEmails, Password \in PasswordInputs, otpCode \in Codes :
          VerifyCredentials(r, Email, Password, otpCode)
    \/ \E r \in Slots : VerifyFindValid(r)
    \/ \E r \in Slots : VerifyMarkUsed(r)
    \/ \E r \in Slots, FullName \in NameInputs, Email \in RejectSignupEmails,
          Password \in SignupPasswords, ConfirmPassword \in SignupConfirms :
          SignupFind(r, FullName, Email, Password, ConfirmPassword)
    \/ \E r \in Slots : SignupInsert(r)
    \/ \E r \in Slots : SignupRespond(r)
    \/ Tick

SpecReject == InitReject /\ [][NextReject]_vars

\* createOTP rejects after its INSERT, in findOTPById: the row is stored, the
\* catch block of login answers 500
LoginCreateFetchFail(r, error) ==
    /\ req[r].kind = "login" /\ req[r].pc = "create"
    /\ otps' = createOTP(otps, nextOtpId, ToLowerCase(req[r].Email), req[r].otpCode,
                         req[r].expiresAt, now)
    /\ nextOtpId' = nextOtpId + 1
    /\ otpLog' = [otpLog EXCEPT ![nextOtpId] =
                     [NoLog EXCEPT !.Email = NormalizeEmail(req[r].Email),
                                   !.spelling = req[r].Email,
                                   !.Password = req[r].Password,
                                   !.OTP = req[r].otpCode,
                                   !.beginNext = req[r].beginNext,
                                   !.invNext = req[r].invNext]]
    /\ Answer(r, [Caught(req[r], "Error during login", error)
                      EXCEPT !.invNext = req[r].invNext])
    /\ UNCHANGED <<users, nextUserId, now, budget>>

\* login and verify-otp beside an account with a code pending, where createOTP
\* can reject before or after its INSERT
NextCreateFail ==
    \/ \E r \in Slots, Email \in EmailInputs, Password \in PasswordInputs :
          LoginCredentials(r, Email, Password)
    \/ \E r \in Slots : LoginInvalidate(r)
    \/ \E r \in Slots : LoginCreate(r)
    \/ \E r \in Slots, error \in StoreErrors : LoginCreateFail(r, error)
    \/ \E r \in Slots, error \in StoreErrors : LoginCreateFetchFail(r, error)
    \/ \E r \in Slots, Email \in EmailInputs, Password \in PasswordInputs, otpCode \in Codes :
          VerifyCredentials(r, Email, Password, otpCode)
    \/ \E r \in Slots : VerifyFindValid(r)
    \/ \E r \in Slots : VerifyMarkUsed(r)
    \/ Tick

SpecCreateFail == InitReject /\ [][NextCreateFail]_vars

----------------------------------------------------------------------------
(* POST /api/auth/verify-otp: AuthController.verifyOtp, AuthService.verifyOtp *)

\* OtpRepository.findValidOtp: the rows of its query
JavaValidRows(table, email, otp, t) ==
    {o \in table : o.Email = email /\ o.OTP = otp /\ ~o.used /\ o.expiresAt > t}

\* the catch (RuntimeException e) of AuthController.verifyOtp
VerifyOtpCatch(q, message) ==
    [Response(q, 401, "e.getMessage()") EXCEPT !.resError = message]

\* what jwtUtil.generateToken can throw: Keys.hmacShaKeyFor rejects a short secret
JavaTokenErrors == {<<"WeakKeyException">>}

\* @Valid, userRepository.findByEmail(email.toLowerCase()), passwordEncoder.matches
JavaVerifyUser(r, Email, Password, otpCode) ==
    /\ CanReceive(r)
    /\ budget' = budget - 1
    /\ LET q == [Received("javaVerify", Email, Password) EXCEPT !.OTP = otpCode]
           found == {u \in users : u.Email = ToLowerCase(Email)}
       IN  IF Trim(Email) = <<>> \/ ~IsEmail(Email) \/ Password = "" \/ otpCode = NoCode
           THEN Answer(r, Response(q, 400, "Validation error"))
           ELSE IF found = {}
           THEN Answer(r, VerifyOtpCatch(q, <<"Invalid", "credentials.">>))
           ELSE \E user \in found :
                   IF ~comparePassword(Password, user.Password)
                   THEN Answer(r, VerifyOtpCatch(q, <<"Invalid", "credentials.">>))
                   ELSE Continue(r, [q EXCEPT !.pc = "findValidOtp", !.user = user])
    /\ UNCHANGED <<users, otps, nextUserId, nextOtpId, now, otpLog>>

\* otpRepository.findValidOtp(email.toLowerCase(), otp, LocalDateTime.now()): an
\* Optional, so more than one row is IncorrectResultSizeDataAccessException
JavaVerifyFindValid(r) ==
    /\ req[r].kind = "javaVerify" /\ req[r].pc = "findValidOtp"
    /\ LET rows == JavaValidRows(otps, ToLowerCase(req[r].Email), req[r].OTP, now)
       IN  IF rows = {}
           THEN Answer(r, VerifyOtpCatch(req[r], <<"Invalid", "or", "expired", "OTP.", "Please",
                                                   "request", "a", "new", "OTP.">>))
           ELSE IF Cardinality(rows) > 1
           THEN Answer(r, VerifyOtpCatch(req[r], <<"query", "did", "not", "return", "a",
                                                   "unique", "result">>))
           ELSE \E otpRecord \in rows :
                   Continue(r, [req[r] EXCEPT !.pc = "setUsed", !.otpRecord = otpRecord])
    /\ UNCHANGED <<users, otps, nextUserId, nextOtpId, now, budget, otpLog>>

\* otp.setUsed(true), otpRepository.save(otp), jwtUtil.generateToken, return: the
\* transaction of verifyOtp commits when the method returns
JavaVerifyCommit(r) ==
    /\ req[r].kind = "javaVerify" /\ req[r].pc = "setUsed"
    /\ otps' = markOTPAsUsed(otps, req[r].otpRecord.id)
    /\ Answer(r, [Response(req[r], 200, "OTP verified successfully. Login complete.")
                      EXCEPT !.resUser = PublicColumns(req[r].user),
                             !.resToken = generateToken(req[r].user.id, now),
                             !.otpRecord = req[r].otpRecord])
    /\ UNCHANGED <<users, nextUserId, nextOtpId, now, budget, otpLog>>

\* otp.setUsed(true), otpRepository.save(otp), then jwtUtil.generateToken throws:
\* the RuntimeException leaves the @Transactional method, so the transaction and
\* with it the update of used are rolled back
JavaVerifyTokenFail(r, error) ==
    /\ req[r].kind = "javaVerify" /\ req[r].pc = "setUsed"
    /\ Answer(r, [VerifyOtpCatch(req[r], error) EXCEPT !.otpRecord = req[r].otpRecord])
    /\ UNCHANGED <<users, otps, nextUserId, nextOtpId, now, budget, otpLog>>

\* the row an earlier login of Jane has stored
IssuedOtp ==
    [id |-> 1, Email |-> <<"a", "@", "x">>, OTP |-> generateOTP(0),
     expiresAt |-> getOTPExpiration(OTP_MINUTES, 0), used |-> FALSE, createdAt |-> 0]

InitJavaVerify ==
    /\ users = {Jane}
    /\ nextUserId = 2
    /\ otps = {IssuedOtp}
    /\ nextOtpId = 2
    /\ now = 0
    /\ req = [r \in Slots |-> IdleReq]
    /\ answer = IdleReq
    /\ budget = MaxRequests - 1
    /\ otpLog = [i \in 1..MaxRequests |-> NoLog]

NextJavaVerify ==
    \/ \E r \in Slots, Email \in EmailInputs, Password \in PasswordInputs, otpCode \in Codes :
          JavaVerifyUser(r, Email, Password, otpCode)
    \/ \E r \in Slots : JavaVerifyFindValid(r)
    \/ \E r \in Slots : JavaVerifyCommit(r)
    \/ \E r \in Slots, error \in JavaTokenErrors : JavaVerifyTokenFail(r, error)
    \/ Tick

SpecJavaVerify == InitJavaVerify /\ [][NextJavaVerify]_vars

----------------------------------------------------------------------------
(* What the claims speak about *)

\* the account of an address, in the words of the specification: the user whose
\* email is the address lowercased and trimmed
AccountOf(Email) == {u \in users : u.Email = Trim(ToLowerCase(Email))}

CredentialsCorrect(Email, Password) ==
    \E u \in AccountOf(Email) : u.Password.plain = Password

FieldsPresent(q) ==
    /\ q.Email # <<>> /\ q.Password # ""
    /\ q.kind = "verifyOTP" => q.OTP # NoCode

OtpIds == {i \in DOMAIN otpLog : otpLog[i].Email # <<>>}

IdsOf(email) == {i \in OtpIds : otpLog[i].Email = Trim(ToLowerCase(email))}

Unexpired(o) == ~o.used /\ o.expiresAt > now

LoginInFlight(email) ==
    \E r \in Slots : /\ req[r].kind = "login"
                     /\ Trim(ToLowerCase(req[r].Email)) = Trim(ToLowerCase(email))

----------------------------------------------------------------------------
\* C1: of the verify-otp requests that carry the same valid code, exactly one is
\* answered 200 with a token, also when they run concurrently: no row of otps is
\* accepted by two requests.
C1_OneVerifyPerCode ==
    \A i \in OtpIds : otpLog[i].consumed <= 1

----------------------------------------------------------------------------
\* the last answer is to a verify-otp with correct credentials that started
\* after a verify-otp had been answered 200 on row x
ReplayOf(x) ==
    /\ answer.kind = "verifyOTP"
    /\ CredentialsCorrect(answer.Email, answer.Password)
    /\ x \in answer.spentIds

\* no login-step-1 for the email of row x has run since the first verify-otp
\* accepted on x started
NoLoginSince(x) ==
    /\ \A y \in OtpIds : otpLog[y].Email = otpLog[x].Email => y < otpLog[x].vBeginNext
    /\ ~LoginInFlight(otpLog[x].Email)

----------------------------------------------------------------------------
\* rows x and y were issued by two logins for one email that ran one after the
\* other, with no other login for that email since, and the last answer is to
\* a verify-otp with correct credentials that started after both, none of the
\* two codes having been verified before
TwoLoginsInARow(x, y) ==
    /\ x < y
    /\ otpLog[x].Email = otpLog[y].Email
    /\ otpLog[y].beginNext > x
    /\ \A z \in OtpIds : otpLog[z].Email = otpLog[x].Email => z <= y
    /\ \A z \in OtpIds : (otpLog[z].Email = otpLog[x].Email /\ z > x) => z = y
    /\ ~LoginInFlight(otpLog[x].Email)
    /\ answer.kind = "verifyOTP"
    /\ NormalizeEmail(answer.Email) = otpLog[x].Email
    /\ CredentialsCorrect(answer.Email, answer.Password)
    /\ answer.beginNext > y
    /\ x \notin answer.spentIds /\ y \notin answer.spentIds

\* C3 as stated: after two logins in a row for one email, verify-otp with the
\* first-issued code is answered 401.
C3_FirstCodeRejected ==
    \A x, y \in OtpIds :
        (TwoLoginsInARow(x, y) /\ answer.OTP = otpLog[x].OTP) => answer.status = 401

\* C3 as amended: after two logins in a row for one email, verify-otp is never
\* accepted on the first-issued row; with the first-issued code it is answered
\* 401 unless the second login drew the same code, and then it is accepted on
\* the second-issued row.
C3_FirstRowRejected ==
    \A x, y \in OtpIds :
        (TwoLoginsInARow(x, y) /\ answer.OTP = otpLog[x].OTP) =>
            \/ answer.status = 401
            \/ /\ answer.status = 200
               /\ otpLog[y].OTP = otpLog[x].OTP
               /\ answer.otpRecord.id = y

W_C3_FirstCodeRejected ==
    \E x, y \in OtpIds :
        /\ TwoLoginsInARow(x, y)
        /\ answer.OTP = otpLog[x].OTP
        /\ otpLog[y].OTP # otpLog[x].OTP
        /\ answer.status = 401
        /\ \E o \in otps : o.id = y /\ Unexpired(o)

----------------------------------------------------------------------------
\* C4: login-step-1 with a password that does not match the stored hash, or
\* with an email that has no account, is answered 401, returns no code and
\* creates no OTP row: only a login with correct credentials gets as far as
\* the invalidation, and every row was issued to correct credentials.
C4_NoOtpForWrongCredentials ==
    /\ (answer.kind = "login" /\ FieldsPresent(answer)
            /\ ~CredentialsCorrect(answer.Email, answer.Password))
        => (answer.status = 401 /\ answer.resOtp = NoCode /\ answer.otpRecord = NoOtp)
    /\ \A r \in Slots : req[r].kind = "login" =>
            CredentialsCorrect(req[r].Email, req[r].Password)
    /\ \A i \in OtpIds : \E u \in users :
            u.Email = otpLog[i].Email /\ u.Password.plain = otpLog[i].Password
    /\ \A o \in otps : o.id \in OtpIds

W_C4_WrongPasswordRejected ==
    /\ answer.kind = "login" /\ answer.status = 401
    /\ AccountOf(answer.Email) # {}
    /\ ~CredentialsCorrect(answer.Email, answer.Password)
    /\ otps # {}

----------------------------------------------------------------------------
\* C5: verify-otp with a wrong password never gets a token, also when its code
\* is a valid OTP of that email; the credentials are checked before the OTP is
\* looked up, so the answer is the one of the credential check.
C5_NoTokenForWrongPassword ==
    /\ (answer.kind = "verifyOTP" /\ FieldsPresent(answer)
            /\ ~CredentialsCorrect(answer.Email, answer.Password))
        => /\ answer.status = 401
           /\ answer.message = "Invalid credentials."
           /\ answer.resToken = NoToken
           /\ answer.otpRecord = NoOtp
    /\ \A r \in Slots : req[r].kind = "verifyOTP" =>
            CredentialsCorrect(req[r].Email, req[r].Password)

W_C5_ValidCodeWrongPassword ==
    /\ answer.kind = "verifyOTP" /\ answer.status = 401
    /\ AccountOf(answer.Email) # {}
    /\ ~CredentialsCorrect(answer.Email, answer.Password)
    /\ \E o \in otps : /\ o.Email = NormalizeEmail(answer.Email)
                       /\ o.OTP = answer.OTP
                       /\ Unexpired(o)

----------------------------------------------------------------------------
\* C6: verify-otp gives a token for a user only by consuming an OTP row that a
\* login-step-1 with the correct credentials of that user issued for that
\* user's canonical email, with the code the request carries; a code that was
\* issued for another email only is answered 401.
C6_TokenOnlyThroughIssuedOtp ==
    answer.kind = "verifyOTP" =>
        /\ answer.resToken # NoToken => answer.status = 200
        /\ answer.status = 200 =>
              LET x == answer.otpRecord.id IN
              /\ x \in OtpIds
              /\ otpLog[x].consumed >= 1
              /\ otpLog[x].Email = Trim(ToLowerCase(answer.Email))
              /\ otpLog[x].OTP = answer.OTP
              /\ \E u \in users :
                    /\ u.Email = otpLog[x].Email
                    /\ u.Password.plain = otpLog[x].Password
                    /\ answer.resToken.userId = u.id
                    /\ answer.resUser = [u EXCEPT !.Password = NoHash]
        /\ (\A x \in IdsOf(answer.Email) : otpLog[x].OTP # answer.OTP) => answer.status # 200

W_C6_CodeOfAnotherEmail ==
    /\ answer.kind = "verifyOTP" /\ answer.status = 401
    /\ CredentialsCorrect(answer.Email, answer.Password)
    /\ \A x \in IdsOf(answer.Email) : otpLog[x].OTP # answer.OTP
    /\ \E o \in otps : /\ o.Email # NormalizeEmail(answer.Email)
                       /\ o.OTP = answer.OTP
                       /\ Unexpired(o)

----------------------------------------------------------------------------
\* a signup that passes the field checks of the controller
WellFormedSignup(q) ==
    /\ q.kind = "signup"
    /\ q.FullName # <<>> /\ q.Email # <<>> /\ q.Password # "" /\ q.ConfirmPassword # ""
    /\ q.Password = q.ConfirmPassword

UniqueEmails ==
    \A u, v \in users : Trim(ToLowerCase(u.Email)) = Trim(ToLowerCase(v.Email)) => u = v

\* C7 as stated: a signup whose email equals, ignoring case, the email of an
\* existing account is always answered 409, and users never holds two rows
\* with the same canonical email.
C7_DuplicateEmailConflict ==
    /\ (answer.kind = "signup" /\ answer.found # {}) => answer.status = 409
    /\ UniqueEmails

\* C7 as amended: a signup with all four fields present and Password equal to
\* ConfirmPassword, whose email equals, ignoring case, the email of an account
\* that exists when the request starts, is answered 409; a signup answered 409
\* has inserted nothing and its email has an account; and users never holds
\* two rows with the same canonical email, also when signups run concurrently.
C7_WellFormedDuplicateConflict ==
    /\ (WellFormedSignup(answer) /\ answer.found # {}) => answer.status = 409
    /\ (answer.kind = "signup" /\ answer.status = 409) =>
            /\ AccountOf(answer.Email) # {}
            /\ answer.insertId = 0 /\ answer.resToken = NoToken
    /\ UniqueEmails

W_C7_LoserOfTheRace ==
    /\ WellFormedSignup(answer) /\ answer.status = 409
    /\ answer.found = {}
    /\ \E u \in AccountOf(answer.Email) : u.Email # answer.Email

----------------------------------------------------------------------------
\* the name, the email and the passwords of the signup are valid
ValidSignup(q) ==
    /\ WellFormedSignup(q)
    /\ Len(Trim(q.FullName)) >= NAME_MIN /\ Len(Trim(q.FullName)) <= NAME_MAX
    /\ \A i \in 1..Len(Trim(q.FullName)) : Trim(q.FullName)[i] \in NameChars
    /\ IsEmail(Trim(ToLowerCase(q.Email)))

\* C8: every signup with a valid name, email and password and a matching
\* confirmPassword, for an email nobody has registered, is answered 201 with a
\* token for the id of the row it created, after which exactly one row has
\* that email (it is answered 409 only when a concurrent signup registered
\* the email first); GET /me with a token of a signup is answered 200 with
\* the email of that row.
C8_ValidSignupSucceeds ==
    /\ (ValidSignup(answer) /\ answer.found = {}) =>
          \/ /\ answer.status = 201
             /\ answer.resToken.userId = answer.insertId
             /\ jwtVerify(answer.resToken, now) = "ok"
             /\ \E u \in users :
                   /\ AccountOf(answer.Email) = {u}
                   /\ u.id = answer.insertId
                   /\ answer.resUser = [u EXCEPT !.Password = NoHash]
          \/ /\ answer.status = 409
             /\ AccountOf(answer.Email) # {}
    /\ (answer.kind = "me" /\ answer.bearer # NoToken) =>
          /\ answer.status = 200
          /\ \E u \in users : u.id = answer.bearer.userId /\ answer.resUser.Email = u.Email

----------------------------------------------------------------------------
ValidOtpsOf(email) == {o \in otps : o.Email = email /\ Unexpired(o)}

----------------------------------------------------------------------------
\* C10: the used flag is absorbing: no step changes the used flag of an
\* existing OTP row from true to false, and markUsed on a used row changes
\* nothing (the request that applies it is answered as usual).
C10_UsedIsAbsorbing ==
    /\ [][\A o \in otps : o.used => \A p \in otps' : p.id = o.id => p.used]_vars
    /\ [](\A o \in otps : o.used => markOTPAsUsed(otps, o.id) = otps)

W_C10_MarkUsedTwice ==
    /\ answer.kind = "verifyOTP" /\ answer.status = 200
    /\ \E o \in otps : o.id = answer.otpRecord.id /\ o.used /\ otpLog[o.id].consumed = 2

----------------------------------------------------------------------------
\* the rows of otps that have the canonical email and the code of request q,
\* used = false and expiresAt strictly later than now
FindableFor(q) ==
    {o \in otps : /\ o.Email = Trim(ToLowerCase(q.Email))
                  /\ o.OTP = q.OTP
                  /\ o.used = FALSE
                  /\ now < o.expiresAt}

\* C11: the findValid step of verify-otp returns a record only if the record
\* has the canonical email and the code of the request, used = false and
\* expiresAt strictly later than now, and it returns one whenever such a record
\* exists; when none exists (an unused record whose expiresAt has passed does
\* not count) the request is answered 401 without a token.
C11_FindValidContract ==
    [][\A r \in Slots :
          (req[r].pc = "findValid" /\ req'[r].pc # "findValid") =>
              IF FindableFor(req[r]) = {}
              THEN /\ req'[r].pc = "idle"
                   /\ answer'.kind = "verifyOTP" /\ answer'.status = 401
                   /\ answer'.resToken = NoToken
                   /\ otps' = otps
              ELSE /\ req'[r].pc = "markUsed"
                   /\ req'[r].otpRecord \in FindableFor(req[r])]_vars

W_C11_ExpiredCodeRejected ==
    /\ answer.kind = "verifyOTP" /\ answer.status = 401
    /\ CredentialsCorrect(answer.Email, answer.Password)
    /\ FindableFor(answer) = {}
    /\ \E o \in otps : /\ o.Email = Trim(ToLowerCase(answer.Email))
                       /\ o.OTP = answer.OTP
                       /\ o.used = FALSE
                       /\ o.expiresAt = now
                       /\ o.id < answer.beginNext

----------------------------------------------------------------------------
\* C12: verify-otp marks the OTP record used before it issues the token: the
\* record of every request answered 200 is used, and when the token issuance
\* fails after the marking, the request is answered 500 without a token, the
\* record stays used, and no verify-otp that starts afterwards is accepted on
\* that record.
C12_MarkedBeforeTokenStaysUsed ==
    /\ \A x \in OtpIds : otpLog[x].burnt > 0 => \E o \in otps : o.id = x /\ o.used
    /\ (answer.kind = "verifyOTP" /\ answer.status = 200) =>
          /\ answer.otpRecord.id \notin answer.burntIds
          /\ \E o \in otps : o.id = answer.otpRecord.id /\ o.used
    /\ (answer.kind = "verifyOTP" /\ answer.status = 500) => answer.resToken = NoToken

W_C12_BurntCodeRejected ==
    /\ answer.kind = "verifyOTP" /\ answer.status = 401
    /\ CredentialsCorrect(answer.Email, answer.Password)
    /\ \E o \in otps : /\ o.id \in answer.burntIds
                       /\ otpLog[o.id].consumed = 0
                       /\ o.Email = Trim(ToLowerCase(answer.Email))
                       /\ o.OTP = answer.OTP
                       /\ o.used /\ o.expiresAt > now

----------------------------------------------------------------------------
\* what the client sees of an answer: the status and the body
Body(a) == <<a.status, a.message, a.resError, a.resOtp, a.resToken, a.resUser>>

\* C13: login-step-1 gives one and the same response, status 401 and the same
\* body, to an unknown email and to a known email with a wrong password, and
\* so does the credential check of verify-otp: the response to a request with
\* wrong credentials does not depend on whether the account exists.
C13_SameRejectionForUnknownAndWrong ==
    /\ (answer.kind = "login" /\ FieldsPresent(answer)
            /\ ~CredentialsCorrect(answer.Email, answer.Password))
        => Body(answer) = <<401, "Invalid credentials. Email or password is incorrect.",
                            NoError, NoCode, NoToken, NoUser>>
    /\ (answer.kind = "verifyOTP" /\ FieldsPresent(answer)
            /\ ~CredentialsCorrect(answer.Email, answer.Password))
        => Body(answer) = <<401, "Invalid credentials.", NoError, NoCode, NoToken, NoUser>>

W_C13_UnknownEmailRejected ==
    /\ answer.kind = "login" /\ answer.status = 401
    /\ AccountOf(answer.Email) = {}
    /\ \E u \in users : u.Password.plain = answer.Password
    /\ otps # {}

----------------------------------------------------------------------------
\* why the code of a verify-otp request q with correct credentials is not
\* valid: no record of the email has it, or the records that have it are used
\* or have expired
WrongCode(q) ==
    \A o \in otps : o.Email = Trim(ToLowerCase(q.Email)) => o.OTP # q.OTP

ExpiredCode(q) ==
    /\ \E o \in otps : /\ o.Email = Trim(ToLowerCase(q.Email)) /\ o.OTP = q.OTP
                       /\ ~o.used /\ o.expiresAt <= now
    /\ FindableFor(q) = {}

UsedCode(q) ==
    /\ \E o \in otps : /\ o.Email = Trim(ToLowerCase(q.Email)) /\ o.OTP = q.OTP
                       /\ o.used
    /\ FindableFor(q) = {}

\* C14: verify-otp with correct credentials gives one and the same response,
\* 401 with the same body, when the code is wrong, when it has expired and
\* when it was already used.
C14_SameRejectionForEveryCause ==
    [][\A r \in Slots :
          ( /\ req[r].pc = "findValid" /\ req'[r].pc # "findValid"
            /\ (WrongCode(req[r]) \/ ExpiredCode(req[r]) \/ UsedCode(req[r])) )
          => /\ req'[r].pc = "idle"
             /\ answer'.kind = "verifyOTP"
             /\ answer'.Email = req[r].Email /\ answer'.OTP = req[r].OTP
             /\ Body(answer') = <<401, "Invalid or expired OTP. Please request a new OTP.",
                                  NoError, NoCode, NoToken, NoUser>>]_vars

W_C14_WrongCodeRejected ==
    /\ answer.kind = "verifyOTP" /\ answer.status = 401
    /\ CredentialsCorrect(answer.Email, answer.Password)
    /\ WrongCode(answer)
    /\ \E o \in otps : o.Email = Trim(ToLowerCase(answer.Email)) /\ Unexpired(o)
    /\ ~LoginInFlight(answer.Email)

----------------------------------------------------------------------------
\* C15: GET /me is answered 200 with the public projection of the user if and
\* only if the bearer token carries a signature of this server, has not
\* expired, and the user of its subject id exists; a missing token, a token
\* with a bad signature, an expired token and a token whose account does not
\* exist are each answered 401 without a user.
C15_MeIffTokenAndSubject ==
    [][(answer'.kind = "me" /\ budget' # budget /\ req' = req) =>
          LET bearer == answer'.bearer
              subject == {u \in users : u.id = bearer.userId}
          IN  IF bearer.signed /\ now < bearer.exp /\ subject # {}
              THEN /\ answer'.status = 200
                   /\ \E u \in subject : answer'.resUser = [u EXCEPT !.Password = NoHash]
              ELSE /\ answer'.status = 401
                   /\ answer'.resUser = NoUser]_vars

W_C15_SubjectGone ==
    /\ answer.kind = "me" /\ answer.status = 401
    /\ answer.bearer.signed /\ now < answer.bearer.exp
    /\ answer.message = "Invalid token. User not found."
    /\ users # {}

----------------------------------------------------------------------------
\* C16: every signup that is rejected because its name, its email or its
\* password fails validation, at the controller or in createUser (every
\* signup that is answered neither 201 nor 409), is answered 400 and has
\* created no user; it is never answered 500.
C16_ValidationAnswered400 ==
    (answer.kind = "signup" /\ answer.status \notin {201, 409}) =>
        /\ answer.status = 400
        /\ answer.insertId = 0

----------------------------------------------------------------------------
\* C17: when a store, hashing or token operation fails during signup,
\* login-step-1 or verify-otp, the response is 500 with a generic message and
\* no text of the internal error is in it (stated here of the responses of
\* login-step-1 and verify-otp).
C17_NoInternalErrorIn500 ==
    answer.status = 500 =>
        /\ answer.message \in {"Error during login", "Error verifying OTP"}
        /\ answer.resError = NoError
        /\ answer.resToken = NoToken /\ answer.resOtp = NoCode

----------------------------------------------------------------------------
----------------------------------------------------------------------------
\* C19: in the Java backend, a POST /signup with valid fields for an email
\* that is already registered is answered 409 Conflict.
C19_JavaDuplicateConflict ==
    ( /\ answer.kind = "javaSignup"
      /\ SignupRequestValid(answer.FullName, answer.Email, answer.Password,
                            answer.ConfirmPassword)
      /\ answer.Password = answer.ConfirmPassword
      /\ answer.found # {} )
    => answer.status = 409

----------------------------------------------------------------------------
\* C20: the invalidation step of login-step-1 sets used = true on every unused
\* record of the canonical email of the request and changes nothing else of
\* those records, so that afterwards findValid returns none of the records of
\* that email for any code, and it leaves the records of every other email as
\* they were; it adds and deletes no record.
C20_InvalidateFrame ==
    [][\A r \in Slots :
          (req[r].pc = "invalidate" /\ req'[r].pc = "create") =>
              LET email == Trim(ToLowerCase(req[r].Email)) IN
              /\ \A o \in otps : o.Email = email => [o EXCEPT !.used = TRUE] \in otps'
              /\ \A o \in otps : o.Email # email => o \in otps'
              /\ {o.id : o \in otps'} = {o.id : o \in otps}
              /\ \A o \in otps' : o.Email = email => o.used
              /\ \A otpCode \in Codes : findValidOTP(otps', req[r].Email, otpCode, now) = {}]_vars

W_C20_OtherEmailUntouched ==
    \E r \in Slots :
        /\ req[r].kind = "login" /\ req[r].pc = "create"
        /\ \E o \in otps : /\ o.Email = Trim(ToLowerCase(req[r].Email))
                           /\ o.Email # req[r].Email
                           /\ o.used /\ otpLog[o.id].consumed = 0 /\ o.expiresAt > now
        /\ \E o \in otps : o.Email # Trim(ToLowerCase(req[r].Email)) /\ Unexpired(o)

----------------------------------------------------------------------------
\* the last answer is to a login-step-1 that succeeded and created row y, no
\* other login for that email created a row while it ran, and none has
\* started or created a row since
LoginAlone(y) ==
    /\ answer.kind = "login" /\ answer.status = 200
    /\ answer.otpRecord.id = y
    /\ otpLog[y].beginNext = y
    /\ \A z \in OtpIds : otpLog[z].Email = otpLog[y].Email => z <= y
    /\ ~LoginInFlight(answer.Email)

\* C21: whatever concurrent login-step-1 requests for an email did before, a
\* later successful login-step-1 for it that no other login overlaps leaves
\* exactly one unused OTP record for the email, the one it created (until a
\* verify-otp consumes it).
C21_LoneLoginConverges ==
    \A y \in OtpIds :
        LoginAlone(y) =>
            LET unused == {o \in otps : o.Email = Trim(ToLowerCase(answer.Email)) /\ ~o.used}
            IN  /\ \A o \in unused : o.id = y
                /\ otpLog[y].consumed = 0 => \E o \in unused : o.id = y

W_C21_ConvergedAfterOverlap ==
    \E x, y, z \in OtpIds :
        /\ x < y /\ y < z
        /\ otpLog[x].Email = otpLog[z].Email /\ otpLog[y].Email = otpLog[z].Email
        /\ x >= otpLog[y].invNext
        /\ otpLog[x].consumed = 0 /\ otpLog[y].consumed = 0 /\ otpLog[z].consumed = 0
        /\ LoginAlone(z)
        /\ {o.id : o \in {p \in otps : ~p.used}} = {z}

----------------------------------------------------------------------------
\* the OTP table as it would be had the sweep never run: the rows of otps and
\* every deleted row, as it was when the sweep deleted it
Unswept ==
    otps \cup {otpLog[i].swept : i \in {j \in DOMAIN otpLog : otpLog[j].swept # NoOtp}}

\* C22: the sweep deletes only records whose expiresAt is earlier than now,
\* never one that findValid could return at that moment, and no response
\* depends on whether it ran: at every moment findValid returns for every
\* email and code the same records from the swept table as from the table
\* with the deleted records put back (the only read of the OTP store that
\* decides a response is findValid).
C22_SweepIsInvisible ==
    /\ [][\A o \in otps : (\A p \in otps' : p.id # o.id) =>
              /\ o.expiresAt < now
              /\ o \notin findValidOTP(otps, o.Email, o.OTP, now)]_vars
    /\ [](\A Email \in EmailInputs, otpCode \in Codes :
              findValidOTP(Unswept, Email, otpCode, now) = findValidOTP(otps, Email, otpCode, now))

W_C22_SweptCodeRejected ==
    /\ answer.kind = "verifyOTP" /\ answer.status = 401
    /\ CredentialsCorrect(answer.Email, answer.Password)
    /\ \E i \in DOMAIN otpLog :
          /\ otpLog[i].swept # NoOtp
          /\ ~otpLog[i].swept.used
          /\ otpLog[i].swept.OTP = answer.OTP
          /\ otpLog[i].swept.Email = Trim(ToLowerCase(answer.Email))
    /\ WrongCode(answer)

----------------------------------------------------------------------------
\* the last answer is to a verify-otp with the email, the password and the
\* code of the login that issued row x, made after that login was answered
\* and before the code expired, no other login for the email having run
\* since and no other verify-otp having consumed the row
VerifyOfIssued(x) ==
    /\ answer.kind = "verifyOTP"
    /\ Trim(ToLowerCase(answer.Email)) = otpLog[x].Email
    /\ answer.Password = otpLog[x].Password
    /\ answer.OTP = otpLog[x].OTP
    /\ x < answer.beginNext
    /\ x \notin answer.spentIds
    /\ otpLog[x].consumed = (IF answer.status = 200 /\ answer.otpRecord.id = x THEN 1 ELSE 0)
    /\ \A z \in OtpIds : otpLog[z].Email = otpLog[x].Email => z <= x
    /\ ~LoginInFlight(answer.Email)
    /\ \E o \in otps : o.id = x /\ o.expiresAt > now

\* C23: the code a successful login-step-1 returned is accepted, 200 with a
\* token for the user, by a verify-otp with the same email and password made
\* before it expires, when no other login-step-1 for the email ran in between
\* and no other verify-otp consumed it: the login invalidates before it
\* creates, so it never invalidates its own code.
C23_IssuedCodeAccepted ==
    \A x \in OtpIds :
        VerifyOfIssued(x) =>
            /\ answer.status = 200
            /\ answer.resToken.signed
            /\ \E u \in users : u.Email = otpLog[x].Email /\ answer.resToken.userId = u.id

W_C23_SecondCodeAccepted ==
    \E w, x \in OtpIds :
        /\ w < x
        /\ otpLog[w].Email = otpLog[x].Email
        /\ otpLog[w].consumed = 0
        /\ \E o \in otps : o.id = w /\ o.used
        /\ VerifyOfIssued(x)
        /\ answer.status = 200 /\ answer.otpRecord.id = x

----------------------------------------------------------------------------
\* C24: createUser validates the name, the email and only the presence of the
\* password hash: it throws a validation error only when the name or the
\* email is not valid (the hasher never returns an empty hash), so for a
\* valid name and a valid email it inserts the user, or reports the
\* duplicate, whatever hash the Password Hasher returned.
C24_CreateUserAcceptsEveryHash ==
    (answer.kind = "signup" /\ WellFormedSignup(answer)) =>
        /\ answer.resError # NoError => ~ValidSignup(answer)
        /\ ValidSignup(answer) => answer.status \in {201, 409}

----------------------------------------------------------------------------
Canonical(email) == Trim(ToLowerCase(email))

\* C25: emails that are equal after lowercasing and trimming are one identity
\* in every operation: users holds one row per canonical email and a signup
\* under another spelling is a duplicate; login-step-1 and verify-otp find
\* the user under every spelling; every OTP row carries the canonical email;
\* a login under one spelling invalidates the rows issued under any other;
\* and a code issued under one spelling is verified under any other.
C25_SpellingsAreOneIdentity ==
    /\ \A u \in users : u.Email = Canonical(u.Email)
    /\ \A u, v \in users : u.Email = v.Email => u = v
    /\ \A o \in otps : /\ o.Email = Canonical(otpLog[o.id].spelling)
                       /\ \E u \in users : u.Email = o.Email
    /\ (answer.kind = "signup" /\ answer.found # {}) => answer.status = 409
    /\ (answer.kind \in {"login", "verifyOTP"} /\ answer.found # {})
        => /\ answer.message # "Invalid credentials."
           /\ answer.message # "Invalid credentials. Email or password is incorrect."
    /\ \A y \in OtpIds : LoginAlone(y) => \A o \in otps : o.id # y => o.used
    /\ \A x \in OtpIds : VerifyOfIssued(x) => answer.status = 200

W_C25_VerifiedUnderOtherSpelling ==
    \E w, x \in OtpIds :
        /\ w < x
        /\ otpLog[w].spelling # otpLog[x].spelling
        /\ otpLog[w].consumed = 0
        /\ \E o \in otps : o.id = w /\ o.used
        /\ VerifyOfIssued(x)
        /\ answer.Email # otpLog[x].spelling
        /\ answer.status = 200 /\ answer.otpRecord.id = x

----------------------------------------------------------------------------
\* C26: when several records satisfy findValid for the email and the code of
\* a verify-otp, the one it returns is the one created last (the one with the
\* greatest id), and the request marks that record used and changes no other.
C26_MostRecentMarkedAlone ==
    [][\A r \in Slots :
          /\ (req[r].pc = "findValid" /\ req'[r].pc = "markUsed") =>
                \A p \in FindableFor(req[r]) : p.id <= req'[r].otpRecord.id
          /\ (req[r].pc = "markUsed" /\ req'[r].pc # "markUsed") =>
                /\ \A o \in otps : o.id # req[r].otpRecord.id => o \in otps'
                /\ \A o \in otps' : o.id = req[r].otpRecord.id => o.used]_vars

\* the number a code spells
RECURSIVE NumericValue(_)
NumericValue(code) ==
    IF code = <<>> THEN 0
    ELSE 10 * NumericValue(SubSeq(code, 1, Len(code) - 1)) + code[Len(code)]

SixDigitCode(code) ==
    /\ Len(code) = 6
    /\ \A i \in 1..Len(code) : code[i] \in 0..9
    /\ NumericValue(code) >= 100000
    /\ NumericValue(code) <= 999999

\* C27: for every value of the random source in [0, 1) the code generated by
\* login-step-1 is a string of exactly 6 digits whose numeric value lies in
\* [100000, 999999], and the expiresAt stored with it is the generation time
\* plus 10 minutes: the step that generates draws such a code and that expiry,
\* and the step that stores writes exactly them and answers with the code.
C27_CodeIsSixDigitsExpiringInTen ==
    [][\A r \in Slots :
          /\ (req[r].pc = "idle" /\ req'[r].pc = "invalidate")
                => /\ SixDigitCode(req'[r].otpCode)
                   /\ req'[r].expiresAt = now + 10
          /\ (req[r].pc = "create" /\ req'[r].pc # "create")
                => /\ answer'.status = 200
                   /\ answer'.resOtp = req[r].otpCode
                   /\ \E o \in otps' \ otps :
                         /\ o.OTP = req[r].otpCode
                         /\ o.expiresAt = req[r].expiresAt
                         /\ SixDigitCode(o.OTP)]_vars

\* a code from the top of the range, stored after the clock moved on from the
\* moment it was generated
W_C27_TopCodeStoredLater ==
    \E o \in otps :
       /\ NumericValue(o.OTP) > 999000
       /\ o.expiresAt = 10
       /\ o.createdAt = TickMinutes
       /\ answer.kind = "login" /\ answer.status = 200 /\ answer.resOtp = o.OTP

\* C28: in the Java service's verifyOtp, when token generation fails after the
\* OTP record was set to used, the used = true update remains committed, so the
\* same code cannot be verified by a later request: after an answer that carries
\* the failure of generateToken the record that request had found is used.
C28_UsedSurvivesTokenFailure ==
    (answer.kind = "javaVerify" /\ answer.resError \in JavaTokenErrors)
       => \A o \in otps : o.id = answer.otpRecord.id => o.used

\* a request is answered in this step
AnsweredNow ==
    \/ budget' # budget /\ req' = req
    \/ \E r \in Slots : req[r].pc # "idle" /\ req'[r].pc = "idle"

RejectedNow ==
    /\ AnsweredNow
    /\ answer'.kind \in {"signup", "login", "verifyOTP"}
    /\ answer'.status \in {400, 401, 409}

\* C29: every rejected request (400, 401 or 409) of signup, login-step-1 or
\* verify-otp leaves both the users store and the OTP store unchanged, so wrong
\* codes neither consume nor invalidate the valid OTP and a failed login does
\* not invalidate a pending one: the step that rejects writes nothing, it is the
\* first step of its request or follows the lookup of verify-otp or of signup,
\* and those lookups write nothing either.
C29_RejectionWritesNothing ==
    [][/\ RejectedNow
          => /\ users' = users /\ otps' = otps
             /\ \A r \in Slots : req'[r] # req[r] => req[r].pc \in {"findValid", "insert"}
        /\ \A r \in Slots :
              (req'[r].pc \in {"findValid", "insert"} /\ req'[r] # req[r])
                 => req[r].pc = "idle" /\ users' = users /\ otps' = otps]_vars

\* three requests, all turned away, the last a verify-otp with a wrong code, and
\* the pending code is still there, unused
W_C29_ThreeRejectionsCodeIntact ==
    /\ budget = 0
    /\ \A r \in Slots : req[r].pc = "idle"
    /\ answer.kind = "verifyOTP" /\ answer.status = 401
    /\ answer.message = "Invalid or expired OTP. Please request a new OTP."
    /\ answer.found # {} /\ answer.OTP # PendingOtp.OTP
    /\ users = {Jane}
    /\ otps = {PendingOtp}

\* C30: in the Node login-step-1 the invalidation is committed independently of
\* the creation: if creating the new OTP record fails after invalidateUnusedOTPs
\* has run, the request is answered 500, no code is returned, and every OTP
\* previously issued for that email stays invalidated.
C30_InvalidationSurvivesCreateFailure ==
    (answer.kind = "login" /\ answer.invNext > 0 /\ answer.status # 200)
       => /\ answer.status = 500
          /\ answer.resOtp = NoCode
          /\ answer.otpRecord = NoOtp
          /\ \A o \in otps :
                (o.Email = NormalizeEmail(answer.Email) /\ o.id < answer.invNext) => o.used

\* the pending code, which no verify-otp had consumed, is used after a login
\* whose createOTP failed
W_C30_PendingCodeInvalidated ==
    /\ answer.kind = "login" /\ answer.status = 500 /\ answer.invNext > 0
    /\ otpLog[PendingOtp.id].consumed = 0
    /\ \E o \in otps : o.id = PendingOtp.id /\ o.used
    /\ \A o \in otps : o.id = PendingOtp.id

====
